---- MODULE Spec2Model ----
(***************************************************************************)
(* The Result algebra of src/src/primitives/result/index.ts: the two       *)
(* variants Ok and Err, their extraction methods, the combinators and the  *)
(* FromTryCatch bridge.  A state is one method-call pipeline: a Result is   *)
(* constructed, combinators are called on the Result the previous call      *)
(* returned, and the pipeline ends when a call throws or take/takeErr       *)
(* extracts the payload.                                                    *)
(***************************************************************************)
EXTENDS Integers, Sequences, FiniteSets

\* Largest number used as a payload; numbers are 0..MaxNum.
MaxNum == 1
\* Most combinator calls made on one pipeline after its construction.
MaxSteps == 3

VARIABLES
  phase,      \* "start" | "awaiting" | "result" | "value" | "thrown": what cur is
  cur,        \* the Result the last call returned (or the value extracted / thrown)
  steps,      \* number of combinator calls made since construction
  prev,       \* the record of the call before the last one
  last,       \* the record of the last call
  origin,     \* the Result the pipeline was constructed with
  onlyMapChain, \* every combinator called so far was map or chain
  usedOr,     \* or / orIf has been called on this pipeline
  firstErr,   \* <<r>>: the first failure Result met by the pipeline, else <<>>
  frame,      \* <<f>>: the FromPromise call suspended at its await, else <<>>
  subject     \* the fields, as they are now, of the instance the pipeline was constructed with

vars ==
  <<phase, cur, steps, prev, last, origin, onlyMapChain, usedOr, firstErr, frame, subject>>

(***************************************************************************)
(* JavaScript values.  Every value is a record of the same shape, so that   *)
(* any two values can be compared: kind is the runtime type, n the number   *)
(* (or boolean 0/1), id the name of a function or Error object, and p the   *)
(* payload of an Ok / Err instance (a one-element sequence).                *)
(***************************************************************************)
Prim(k, i, s) == [kind |-> k, n |-> i, id |-> s, p |-> <<>>]

Undefined == Prim("undefined", 0, "")
Null == Prim("null", 0, "")
Num(i) == Prim("number", i, "")
Bool(b) == Prim("boolean", IF b THEN 1 ELSE 0, "")
Fn(name) == Prim("function", 0, name)

\* The empty sentinel imported from the package root.
EMPTY == Prim("empty", 0, "")

\* Result.ERROR: the two variant-misuse Error objects.
ERROR_take == Prim("error", 0, "Result.ERROR.take")
ERROR_takeErr == Prim("error", 0, "Result.ERROR.takeErr")

\* A promise, given by how it settles: fulfilled with v or rejected with v.
PromiseResolve(v) == [kind |-> "promise", n |-> 0, id |-> "fulfilled", p |-> <<v>>]
PromiseReject(v) == [kind |-> "promise", n |-> 0, id |-> "rejected", p |-> <<v>>]

\* new Ok(value), new Err(error)
NewOk(value) == [kind |-> "Ok", n |-> 0, id |-> "", p |-> <<value>>]
NewErr(error) == [kind |-> "Err", n |-> 0, id |-> "", p |-> <<error>>]

\* x instanceof Result
InstanceofResult(x) == x.kind \in {"Ok", "Err"}
\* typeof x === "function"
TypeofFunction(x) == x.kind = "function"
\* ToBoolean(x): the truthiness a conditional tests
Truthy(x) ==
  CASE x.kind = "undefined" -> FALSE
    [] x.kind = "null" -> FALSE
    [] x.kind = "boolean" -> x.n = 1
    [] x.kind = "number" -> x.n # 0
    [] OTHER -> TRUE

(***************************************************************************)
(* Completions: a call either returns a value or throws one; calls lists    *)
(* the user functions it invoked, in order, each with its argument.         *)
(***************************************************************************)
Return(v, cs) == [threw |-> FALSE, val |-> v, calls |-> cs]
Throw(v, cs) == [threw |-> TRUE, val |-> v, calls |-> cs]

\* Result.Ok(value?) and Result.Err(error?)
ResultOk(value) == IF value # Undefined THEN NewOk(value) ELSE NewOk(EMPTY)
ResultErr(error) == IF error # Undefined THEN NewErr(error) ELSE NewErr(EMPTY)

(***************************************************************************)
(* The user functions handed to the combinators (mappers, chain functions,  *)
(* predicates, effects, thunks).  Body(f, x) is what calling f(x) does: it  *)
(* returns a value or throws one.                                           *)
(***************************************************************************)
identity == Fn("x => x")
increment == Fn("x => typeof x === 'number' ? (x + 1) % (MaxNum + 1) : 0")
toUndefined == Fn("x => undefined")
isUndefined == Fn("x => x === undefined ? 1 : 0")
wrapOk == Fn("x => Result.Ok(x)")
wrapErr == Fn("x => Result.Err(x)")
thrower == Fn("x => { throw x }")
one == Fn("() => 1")
throwOne == Fn("() => { throw 1 }")
resolveOne == Fn("() => Promise.resolve(1)")
rejectOne == Fn("() => Promise.reject(1)")
always == Fn("x => true")
isZero == Fn("x => x === 0")

Body(f, x) ==
  CASE f = identity -> Return(x, <<>>)
    [] f = increment ->
         Return(IF x.kind = "number" THEN Num((x.n + 1) % (MaxNum + 1)) ELSE Num(0), <<>>)
    [] f = toUndefined -> Return(Undefined, <<>>)
    [] f = isUndefined -> Return(IF x = Undefined THEN Num(1) ELSE Num(0), <<>>)
    [] f = wrapOk -> Return(ResultOk(x), <<>>)
    [] f = wrapErr -> Return(ResultErr(x), <<>>)
    [] f = thrower -> Throw(x, <<>>)
    [] f = one -> Return(Num(1), <<>>)
    [] f = throwOne -> Throw(Num(1), <<>>)
    [] f = resolveOne -> Return(PromiseResolve(Num(1)), <<>>)
    [] f = rejectOne -> Return(PromiseReject(Num(1)), <<>>)
    [] f = always -> Return(Bool(TRUE), <<>>)
    [] f = isZero -> Return(Bool(x = Num(0)), <<>>)

\* f(x): the call is recorded, and its completion is the body's.
Call(f, x) ==
  LET c == Body(f, x) IN [threw |-> c.threw, val |-> c.val, calls |-> <<[f |-> f, x |-> x]>>]

\* The completion of a call made after the calls cs: the calls are appended.
After(cs, c) == [threw |-> c.threw, val |-> c.val, calls |-> cs \o c.calls]

(***************************************************************************)
(* class Ok                                                                 *)
(***************************************************************************)
Ok_value(self) == self.p[1]
Ok_take(self) == Return(Ok_value(self), <<>>)
Ok_takeErr(self) == Throw(ERROR_takeErr, <<>>)
Ok_isOk(self) == TRUE
Ok_isErr(self) == FALSE
Ok_onErr(self, fn) == Return(self, <<>>)

\* onOk, were it to return a new Ok of what the effect returned (as map does).
Ok_onOk_Mapped(self, fn) ==
  LET c == Call(fn, Ok_value(self)) IN
  IF c.threw THEN c ELSE Return(ResultOk(c.val), c.calls)

Ok_onOk(self, fn) ==
  LET c == Call(fn, Ok_value(self)) IN
  IF c.threw THEN c ELSE Return(self, c.calls)

Ok_map(self, mapper) ==
  LET c == Call(mapper, Ok_value(self)) IN
  IF c.threw THEN c ELSE Return(ResultOk(c.val), c.calls)

Ok_refine(self, mapper) == Return(self, <<>>)

(***************************************************************************)
(* class Err                                                                *)
(***************************************************************************)
Err_error(self) == self.p[1]

\* take, were it to hand out the error payload instead of throwing.
Err_take_Payload(self) == Return(Err_error(self), <<>>)

Err_take(self) == Throw(ERROR_take, <<>>)
Err_takeErr(self) == Return(Err_error(self), <<>>)
\* isOk, were Err to answer as Ok does.
Err_isOk_AsOk(self) == TRUE

Err_isOk(self) == FALSE
Err_isErr(self) == TRUE
Err_onOk(self, fn) == Return(self, <<>>)

Err_onErr(self, fn) ==
  LET c == Call(fn, Err_error(self)) IN
  IF c.threw THEN c ELSE Return(self, c.calls)

\* map, were it to apply the mapper to the error payload.
Err_map_Applied(self, mapper) ==
  LET c == Call(mapper, Err_error(self)) IN
  IF c.threw THEN c ELSE Return(ResultErr(c.val), c.calls)

Err_map(self, mapper) == Return(self, <<>>)

\* refine, were it to wrap the mapped error with Result.Ok.
Err_refine_AsOk(self, mapper) ==
  LET c == Call(mapper, Err_error(self)) IN
  IF c.threw THEN c ELSE Return(ResultOk(c.val), c.calls)

Err_refine(self, mapper) ==
  LET c == Call(mapper, Err_error(self)) IN
  IF c.threw THEN c ELSE Return(ResultErr(c.val), c.calls)

Err_chain(self, chain) == Return(self, <<>>)

(***************************************************************************)
(* abstract class Result: dynamic dispatch on the variant, and the methods  *)
(* the base class implements.                                               *)
(***************************************************************************)
isOk(self) == IF self.kind = "Ok" THEN Ok_isOk(self) ELSE Err_isOk(self)
isErr(self) == IF self.kind = "Ok" THEN Ok_isErr(self) ELSE Err_isErr(self)
take(self) == IF self.kind = "Ok" THEN Ok_take(self) ELSE Err_take(self)
takeErr(self) == IF self.kind = "Ok" THEN Ok_takeErr(self) ELSE Err_takeErr(self)
onOk(self, fn) == IF self.kind = "Ok" THEN Ok_onOk(self, fn) ELSE Err_onOk(self, fn)
onErr(self, fn) == IF self.kind = "Ok" THEN Ok_onErr(self, fn) ELSE Err_onErr(self, fn)
refine(self, mapper) ==
  IF self.kind = "Ok" THEN Ok_refine(self, mapper) ELSE Err_refine(self, mapper)
map(self, mapper) == IF self.kind = "Ok" THEN Ok_map(self, mapper) ELSE Err_map(self, mapper)

\* toUnion(): every instance is an Ok or an Err, so it returns this.
toUnion(self) == Return(self, <<>>)

\* unfold, were it to leave a nested Result in place.
unfold_Never(self) == Return(self, <<>>)

unfold(self) ==
  LET union == toUnion(self).val IN
  IF isErr(union) THEN Return(self, <<>>)
  ELSE IF ~InstanceofResult(Ok_value(union)) THEN Return(self, <<>>)
  ELSE Return(Ok_value(union), <<>>)

Ok_chain(self, chain) ==
  LET c == Call(chain, Ok_value(self)) IN
  IF c.threw THEN c ELSE After(c.calls, unfold(ResultOk(c.val)))

chain(self, fn) == IF self.kind = "Ok" THEN Ok_chain(self, fn) ELSE Err_chain(self, fn)

\* check, were it to evaluate the predicate before testing the variant.
check_Eager(self, predicate, error) ==
  LET c == Call(predicate, self.p[1]) IN
  IF c.threw THEN c
  ELSE IF isErr(self) \/ Truthy(c.val) THEN Return(self, c.calls)
  ELSE Return(IF error # Undefined THEN ResultErr(error) ELSE ResultErr(Undefined), c.calls)

check(self, predicate, error) ==
  IF isErr(self) THEN Return(self, <<>>)
  ELSE LET c == Call(predicate, take(self).val) IN
       IF c.threw THEN c
       ELSE IF Truthy(c.val) THEN Return(self, c.calls)
       ELSE Return(IF error # Undefined THEN ResultErr(error) ELSE ResultErr(Undefined),
                   c.calls)

assert(self, guard, error) ==
  IF isErr(self) THEN Return(self, <<>>)
  ELSE LET c == Call(guard, take(self).val) IN
       IF c.threw THEN c
       ELSE IF Truthy(c.val) THEN Return(self, c.calls)
       ELSE Return(IF error # Undefined THEN ResultErr(error) ELSE ResultErr(Undefined),
                   c.calls)

\* or, were it to compute a function alternative before testing the variant.
or_Eager(self, other) ==
  IF TypeofFunction(other) THEN
    LET c == Call(other, self.p[1]) IN
    IF c.threw THEN c ELSE Return(IF isOk(self) THEN self ELSE c.val, c.calls)
  ELSE Return(IF isOk(self) THEN self ELSE other, <<>>)

or(self, other) ==
  IF isOk(self) THEN Return(self, <<>>)
  ELSE IF TypeofFunction(other) THEN Call(other, takeErr(self).val)
  ELSE Return(other, <<>>)

orIf(self, predicate, other) ==
  IF isOk(self) THEN Return(self, <<>>)
  ELSE LET c == Call(predicate, takeErr(self).val) IN
       IF c.threw THEN c
       ELSE IF Truthy(c.val) THEN
              IF TypeofFunction(other) THEN After(c.calls, Call(other, takeErr(self).val))
              ELSE Return(other, c.calls)
       ELSE Return(self, c.calls)

\* Result.FromTryCatch(fn, mapper?)
FromTryCatch(fn, mapper) ==
  LET c == Call(fn, Undefined) IN
  IF ~c.threw THEN Return(ResultOk(c.val), c.calls)
  ELSE IF Truthy(mapper) THEN
         LET m == After(c.calls, Call(mapper, c.val)) IN
         IF m.threw THEN m ELSE Return(ResultErr(m.val), m.calls)
  ELSE Return(ResultErr(c.val), c.calls)

\* await x: the completion the awaiting code resumes with.  A rejected
\* promise resumes it by throwing the reason; a value that is no promise is
\* handed back as it is.
Await(x) ==
  IF x.kind = "promise"
  THEN (IF x.id = "rejected" THEN Throw(x.p[1], <<>>) ELSE Return(x.p[1], <<>>))
  ELSE Return(x, <<>>)

\* Result.FromPromise(promise, mapper?), up to its await: the operand of the
\* await, or what calling the thunk threw.
FromPromise_operand(promise) ==
  IF TypeofFunction(promise) THEN Call(promise, Undefined) ELSE Return(promise, <<>>)

\* The catch block of FromPromise, entered with e after the calls cs.
FromPromise_catch(mapper, e, cs) ==
  IF Truthy(mapper) THEN
    LET m == After(cs, Call(mapper, e)) IN
    IF m.threw THEN m ELSE Return(ResultErr(m.val), m.calls)
  ELSE Return(ResultErr(e), cs)

\* FromPromise resumed with the settlement s of the awaited value: what the
\* async function returns (the returned promise is fulfilled with it) or
\* throws (the returned promise is rejected with it).
FromPromise_resume(mapper, s, cs) ==
  IF s.threw THEN FromPromise_catch(mapper, s.val, cs)
  ELSE Return(ResultOk(s.val), cs)

(***************************************************************************)
(* The arguments the calls are made with.                                   *)
(***************************************************************************)
Payloads ==
  {Undefined, Null, EMPTY} \cup {Num(i) : i \in 0..MaxNum}
    \cup {NewOk(Num(0)), NewErr(Num(0))}
Mappers == {identity, increment, toUndefined, isUndefined, thrower}
ChainFns == {wrapOk, wrapErr}
Predicates == {always, isZero}
\* The optional error of check / assert: undefined is the omitted argument.
Errors == {Undefined, Num(1)}
Effects == {increment, thrower}
Alternatives == {NewOk(Num(1)), NewErr(Num(1)), wrapOk, wrapErr}
Thunks == {one, toUndefined, thrower, throwOne}
\* The promise, or the thunk returning one, handed to FromPromise.
PromiseArgs ==
  {PromiseResolve(Num(1)), PromiseResolve(Undefined), PromiseReject(Num(1)),
   PromiseReject(Undefined), resolveOne, rejectOne, throwOne}
\* The optional mapper of FromTryCatch / FromPromise: undefined is the omitted argument.
TryMappers == {Undefined, increment, toUndefined, thrower}

(***************************************************************************)
(* The pipeline.                                                            *)
(***************************************************************************)
\* The fields of the receiver self after its method op has run with args:
\* Ok declares _value readonly, and no method of Ok or Err assigns _value or
\* _error, so they are the fields the constructor set.
thisAfter(self, op, args) == self

\* The record of one call: the method, its receiver and arguments, whether
\* it threw, the value it returned or threw, the user calls it made, and the
\* receiver's fields after it.
Step(op, recv, args, c) ==
  [op |-> op, recv |-> recv, args |-> args, threw |-> c.threw, out |-> c.val,
   calls |-> c.calls, recvAfter |-> thisAfter(recv, op, args)]

\* The fields of the constructed instance after op was called on recv: a
\* receiver with the fields of the constructed instance is that instance (or
\* one no call can tell from it).
SubjectAfter(recv, op, args) ==
  IF recv = subject THEN thisAfter(recv, op, args) ELSE subject

NoStep == Step("none", Undefined, <<>>, Return(Undefined, <<>>))

Init ==
  /\ phase = "start"
  /\ cur = Undefined
  /\ steps = 0
  /\ prev = NoStep
  /\ last = NoStep
  /\ origin = Undefined
  /\ onlyMapChain = TRUE
  /\ usedOr = FALSE
  /\ firstErr = <<>>
  /\ frame = <<>>
  /\ subject = Undefined

\* The pipeline starts with the Result the completion c of a factory call
\* holds (for FromPromise: with the Result its promise is fulfilled with, and
\* a throw is that promise's rejection).
Start(op, args, c) ==
  /\ phase' = IF c.threw THEN "thrown" ELSE "result"
  /\ cur' = c.val
  /\ prev' = last
  /\ last' = Step(op, Undefined, args, c)
  /\ origin' = c.val
  /\ firstErr' = IF ~c.threw /\ c.val.kind = "Err" THEN <<c.val>> ELSE <<>>
  /\ frame' = <<>>
  /\ subject' = c.val
  /\ UNCHANGED <<steps, onlyMapChain, usedOr>>

\* A static factory call starts the pipeline with the Result it returns.
Construct(op, args, c) ==
  /\ phase = "start"
  /\ Start(op, args, c)

\* A combinator call on the current Result; the next call is made on the
\* Result it returns.
Combine(op, args, c) ==
  /\ phase = "result"
  /\ steps < MaxSteps
  /\ phase' = IF c.threw THEN "thrown" ELSE "result"
  /\ cur' = c.val
  /\ steps' = steps + 1
  /\ prev' = last
  /\ last' = Step(op, cur, args, c)
  /\ onlyMapChain' = (onlyMapChain /\ op \in {"map", "chain"})
  /\ usedOr' = (usedOr \/ op \in {"or", "orIf"})
  /\ firstErr' = IF firstErr = <<>> /\ ~c.threw /\ c.val.kind = "Err"
                 THEN <<c.val>> ELSE firstErr
  /\ subject' = SubjectAfter(cur, op, args)
  /\ UNCHANGED <<origin, frame>>

\* take() / takeErr() end the pipeline with the payload, or by throwing.
Extract(op, c) ==
  /\ phase = "result"
  /\ phase' = IF c.threw THEN "thrown" ELSE "value"
  /\ cur' = c.val
  /\ prev' = last
  /\ last' = Step(op, cur, <<>>, c)
  /\ subject' = SubjectAfter(cur, op, <<>>)
  /\ UNCHANGED <<steps, origin, onlyMapChain, usedOr, firstErr, frame>>

\* The value of an optional parameter: undefined when the argument is omitted.
Param(args, i) == IF i <= Len(args) THEN args[i] ELSE Undefined

\* Result.Ok() / Result.Ok(value), Result.Err() / Result.Err(error)
ArgLists == {<<>>} \cup {<<v>> : v \in Payloads}
CallOk ==
  \E args \in ArgLists : Construct("Ok", args, Return(ResultOk(Param(args, 1)), <<>>))
CallErr ==
  \E args \in ArgLists : Construct("Err", args, Return(ResultErr(Param(args, 1)), <<>>))
CallFromTryCatch ==
  \E fn \in Thunks, mapper \in TryMappers :
    Construct("FromTryCatch", <<fn, mapper>>, FromTryCatch(fn, mapper))

\* Result.FromPromise(promise, mapper?) runs to its await and is suspended
\* there; when calling the thunk throws, the catch block runs at once.
CallFromPromise ==
  \E promise \in PromiseArgs, mapper \in TryMappers :
    LET c == FromPromise_operand(promise) IN
    IF c.threw
    THEN Construct("FromPromise", <<promise, mapper>>,
                   FromPromise_catch(mapper, c.val, c.calls))
    ELSE /\ phase = "start"
         /\ phase' = "awaiting"
         /\ frame' = <<[args |-> <<promise, mapper>>, awaited |-> c.val, calls |-> c.calls]>>
         /\ UNCHANGED <<cur, steps, prev, last, origin, onlyMapChain, usedOr, firstErr,
                        subject>>

\* The awaited value settles and the suspended FromPromise call resumes.
Settle ==
  /\ phase = "awaiting"
  /\ Start("FromPromise", frame[1].args,
           FromPromise_resume(frame[1].args[2], Await(frame[1].awaited), frame[1].calls))

CallMap == \E mapper \in Mappers : Combine("map", <<mapper>>, map(cur, mapper))
CallChain == \E fn \in ChainFns : Combine("chain", <<fn>>, chain(cur, fn))
CallRefine == \E mapper \in Mappers : Combine("refine", <<mapper>>, refine(cur, mapper))
CallCheck ==
  \E predicate \in Predicates, error \in Errors :
    Combine("check", <<predicate, error>>, check(cur, predicate, error))
CallAssert ==
  \E guard \in Predicates, error \in Errors :
    Combine("assert", <<guard, error>>, assert(cur, guard, error))
CallUnfold == Combine("unfold", <<>>, unfold(cur))
CallOr == \E other \in Alternatives : Combine("or", <<other>>, or(cur, other))
CallOrIf ==
  \E predicate \in Predicates, other \in Alternatives :
    Combine("orIf", <<predicate, other>>, orIf(cur, predicate, other))
CallOnOk == \E effect \in Effects : Combine("onOk", <<effect>>, onOk(cur, effect))
CallOnErr == \E effect \in Effects : Combine("onErr", <<effect>>, onErr(cur, effect))
CallTake == Extract("take", take(cur))
CallTakeErr == Extract("takeErr", takeErr(cur))

Next ==
  \/ CallOk
  \/ CallErr
  \/ CallFromTryCatch
  \/ CallFromPromise
  \/ Settle
  \/ CallMap
  \/ CallChain
  \/ CallRefine
  \/ CallCheck
  \/ CallAssert
  \/ CallUnfold
  \/ CallOr
  \/ CallOrIf
  \/ CallOnOk
  \/ CallOnErr
  \/ CallTake
  \/ CallTakeErr

Spec == Init /\ [][Next]_vars

(***************************************************************************)
(* Properties                                                               *)
(***************************************************************************)
\* The one user call f(x), as the calls field of a step records it.
OneCall(f, x) == <<[f |-> f, x |-> x]>>

\* C1: map and chain called on a failure invoke nothing and return that
\* failure unchanged; a pipeline made of map / chain calls only holds, once a
\* failure has appeared, the first failure it met.
C1_ShortCircuit ==
  /\ (last.op \in {"map", "chain"} /\ last.recv.kind = "Err")
       => (~last.threw /\ last.calls = <<>> /\ last.out = last.recv)
  /\ (onlyMapChain /\ firstErr # <<>> /\ last.op \in {"map", "chain"})
       => (phase = "result" /\ cur = firstErr[1])

\* C1 witness: a chain step turned a success into a failure and a later map
\* with a throwing mapper returned that same failure.
C1_Witness ==
  /\ onlyMapChain
  /\ origin.kind = "Ok"
  /\ prev.op = "chain"
  /\ prev.recv.kind = "Ok"
  /\ prev.out.kind = "Err"
  /\ last.op = "map"
  /\ last.args = <<thrower>>
  /\ cur = prev.out

\* C2: a pipeline that started from a failure and never called or / orIf
\* still holds a failure after every call that returned.
C2_FailureKept ==
  (origin.kind = "Err" /\ ~usedOr /\ phase = "result") => cur.kind = "Err"

\* C2 witness: a failure went through onErr and then refine, whose mapper ran.
C2_Witness ==
  /\ origin.kind = "Err"
  /\ ~usedOr
  /\ phase = "result"
  /\ prev.op = "onErr"
  /\ last.op = "refine"
  /\ last.calls # <<>>
  /\ cur.kind = "Err"
  /\ cur # origin

C4_FunctorComposition ==
  (prev.op = "map" /\ prev.recv.kind = "Ok" /\ last.op = "map" /\ ~last.threw)
    => last.out = ResultOk(Body(last.args[1], Body(prev.args[1], prev.recv.p[1]).val).val)

\* C5: Ok(v).take() is v and Err(e).takeErr() is e for every argument given,
\* undefined included; without an argument the payload is the empty sentinel.
C5_RoundTrip ==
  (prev.op \in {"Ok", "Err"} /\ last.op = (IF prev.op = "Ok" THEN "take" ELSE "takeErr"))
    => /\ ~last.threw
       /\ last.out = (IF Len(prev.args) = 1 THEN prev.args[1] ELSE EMPTY)

\* C6: take() on a failure and takeErr() on a success throw the
\* variant-misuse error, whatever calls produced the Result.
C6_VariantMisuse ==
  /\ (last.op = "take" /\ last.recv.kind = "Err")
       => (last.threw /\ phase = "thrown" /\ cur = ERROR_take)
  /\ (last.op = "takeErr" /\ last.recv.kind = "Ok")
       => (last.threw /\ phase = "thrown" /\ cur = ERROR_takeErr)

\* C6 witness: take() threw on a failure that combinators had produced.
C6_Witness ==
  /\ last.op = "take"
  /\ last.recv.kind = "Err"
  /\ origin.kind = "Ok"
  /\ steps >= 2
  /\ phase = "thrown"

C8_Or ==
  /\ last.op = "or" =>
       LET alt == last.args[1]
           r == last.recv
       IN IF r.kind = "Ok" THEN ~last.threw /\ last.calls = <<>> /\ last.out = r
          ELSE IF TypeofFunction(alt)
               THEN /\ last.calls = OneCall(alt, r.p[1])
                    /\ last.threw = Body(alt, r.p[1]).threw
                    /\ last.out = Body(alt, r.p[1]).val
               ELSE ~last.threw /\ last.calls = <<>> /\ last.out = alt
  /\ last.op = "orIf" =>
       LET p == last.args[1]
           alt == last.args[2]
           r == last.recv
       IN IF r.kind = "Ok" THEN ~last.threw /\ last.calls = <<>> /\ last.out = r
          ELSE IF ~Truthy(Body(p, r.p[1]).val)
               THEN ~last.threw /\ last.calls = OneCall(p, r.p[1]) /\ last.out = r
               ELSE IF TypeofFunction(alt)
                    THEN /\ last.calls = OneCall(p, r.p[1]) \o OneCall(alt, r.p[1])
                         /\ last.threw = Body(alt, r.p[1]).threw
                         /\ last.out = Body(alt, r.p[1]).val
                    ELSE ~last.threw /\ last.calls = OneCall(p, r.p[1]) /\ last.out = alt

\* C8 witness: orIf on a failure whose predicate held called the function
\* alternative and returned what it returned.
C8_Witness ==
  /\ last.op = "orIf"
  /\ last.recv.kind = "Err"
  /\ last.args[2] = wrapOk
  /\ Len(last.calls) = 2
  /\ cur = ResultOk(last.recv.p[1])

\* The calls onOk / onErr make: the effect once, with the payload, when the
\* receiver is the matching variant, and nothing otherwise.
EffectCalls ==
  IF last.recv.kind = (IF last.op = "onOk" THEN "Ok" ELSE "Err")
  THEN OneCall(last.args[1], last.recv.p[1])
  ELSE <<>>

\* C9 as stated: the effect runs once iff the variant matches and the call
\* returns the receiver, whatever the effect returns or throws.
C9_AlwaysReturnsReceiver ==
  last.op \in {"onOk", "onErr"} =>
    (last.calls = EffectCalls /\ ~last.threw /\ last.out = last.recv)

\* C9 amended: the effect runs once iff the variant matches; the call returns
\* the receiver whatever the effect returns, and when the effect throws, the
\* call throws what the effect threw.
C9_Effects ==
  last.op \in {"onOk", "onErr"} =>
    /\ last.calls = EffectCalls
    /\ IF EffectCalls # <<>> /\ Body(last.args[1], last.recv.p[1]).threw
       THEN last.threw /\ last.out = Body(last.args[1], last.recv.p[1]).val
       ELSE ~last.threw /\ last.out = last.recv

\* C9 witness: onOk on a success ran an effect that returned another value,
\* and returned the receiver.
C9_Witness ==
  /\ last.op = "onOk"
  /\ last.recv.kind = "Ok"
  /\ last.args = <<increment>>
  /\ Len(last.calls) = 1
  /\ Body(increment, last.recv.p[1]).val # last.recv.p[1]
  /\ cur = last.recv

\* C10: FromTryCatch(fn, mapper?) never throws; it returns a success holding
\* what fn returned, or a failure holding what fn threw (mapper applied to it
\* when a mapper is given), undefined included.
C10_FromTryCatch ==
  last.op = "FromTryCatch" =>
    LET c == Body(last.args[1], Undefined)
        mapper == last.args[2]
    IN /\ ~last.threw
       /\ last.out = IF ~c.threw THEN NewOk(c.val)
                     ELSE IF mapper = Undefined THEN NewErr(c.val)
                     ELSE NewErr(Body(mapper, c.val).val)

\* The settlement of the computation FromPromise was called to wrap.
Wrapped == Await(FromPromise_operand(last.args[1]).val)

\* C11: the promise FromPromise returns is fulfilled with Ok(v) when the
\* wrapped computation resolves with v; when it rejects, with a failure
\* holding the reason (mapper(reason) when a mapper is given), and the
\* returned promise is never rejected.
C11_FromPromise ==
  (last.op = "FromPromise" /\ ~FromPromise_operand(last.args[1]).threw) =>
    LET mapper == last.args[2] IN
    /\ ~Wrapped.threw => (~last.threw /\ last.out = ResultOk(Wrapped.val))
    /\ Wrapped.threw =>
         /\ ~last.threw
         /\ last.out = NewErr(IF mapper = Undefined THEN Wrapped.val
                              ELSE Body(mapper, Wrapped.val).val)

====
